---- MODULE Spec2Model ----
(***************************************************************************)
(* Model of scripts/generate_moving_average.py: compute_moving_average,    *)
(* the centered moving average over a list of {date, production} rows.     *)
(*                                                                         *)
(* Indices are 0-based as in the source; the TLA+ sequence data is         *)
(* 1-based, so the row at source index j is data[j + 1].                   *)
(*                                                                         *)
(* production values are integers here.  average is kept as the exact      *)
(* fraction <<sum, count>>, and the rounded production of a result row is  *)
(* an integer number of tenths (25 stands for 2.5).                        *)
(***************************************************************************)
EXTENDS Integers, Sequences, FiniteSets, TLC

\* ---- bounds of the model ------------------------------------------------
MaxLen == 4
MaxVal == 1
MaxW == 6
\* window sizes run from -MaxNegW (not validated by the source) to MaxW
MaxNegW == 3

Dates == {"d0", "d1"}
Row == [date : Dates, production : 0..MaxVal]

\* the regression series of the left-edge example: values 1..6, labels d0..d5
ExampleDates == <<"d0", "d1", "d2", "d3", "d4", "d5">>
ExampleData == [j \in 1..6 |-> [date |-> ExampleDates[j], production |-> j]]

VARIABLES data, window_size, i, half_window, start, end, window_values,
          average, result, pc

vars == <<data, window_size, i, half_window, start, end, window_values,
          average, result, pc>>

\* ---- pure helpers -------------------------------------------------------
Max(a, b) == IF a >= b THEN a ELSE b
Min(a, b) == IF a <= b THEN a ELSE b

\* sum(window_values)
RECURSIVE Sum(_)
Sum(s) == IF Len(s) = 0 THEN 0 ELSE Head(s) + Sum(Tail(s))

\* variant: the tenths are cut off instead of rounded
Round1Trunc(num, den) == (10 * num) \div den

\* round(num / den, 1) in tenths: nearest tenth, an exact tie going to the
\* even tenth (Python 3 round).  den > 0.
Round1(num, den) ==
    LET t == (10 * num) \div den
        r == (10 * num) - t * den
    IN  IF 2 * r < den THEN t
        ELSE IF 2 * r > den THEN t + 1
        ELSE IF t % 2 = 0 THEN t ELSE t + 1

\* variant: the half window rounded up
HalfWindowCeil(w) == (w + 1) \div 2

\* line 37
HalfWindow(w) == w \div 2
\* variant: the half window added instead of subtracted
StartSignSlip(k, w) == Max(0, k + HalfWindow(w))

\* line 38
Start(k, w) == Max(0, k - HalfWindow(w))
\* variants of the end bound: one short, one long, sized from the half
\* window, and with the width clamped to at least one
EndShort(n, s, w) == Min(n, s + w - 1)
EndInclusive(n, s, w) == Min(n, s + w + 1)
EndCentered(n, s, w) == Min(n, s + HalfWindow(w) + 1)
EndAtLeastOne(n, s, w) == Min(n, s + Max(1, w))

\* line 39
End(n, s, w) == Min(n, s + w)
\* variant: the window read from start + 1
WindowValuesExclusive(d, s, e) ==
    IF e <= s + 1 THEN << >>
    ELSE [k \in 1..(e - s - 1) |-> d[s + 1 + k].production]

\* line 42: [data[j]['production'] for j in range(start, end)]
WindowValues(d, s, e) ==
    IF e <= s THEN << >>
    ELSE [k \in 1..(e - s) |-> d[s + k].production]

\* variant: the loop runs one index past the end
RangeHasNextInclusive(n, done) == done <= n

\* line 35: range(len(data)) still has an index after done iterations
RangeHasNext(n, done) == done < n

\* variant: every row labelled with the first date
OutRowFirstDate(d, k, avg) ==
    [date |-> d[1].date, production |-> Round1(avg[1], avg[2])]

\* lines 45-48: the appended row
OutRow(d, k, avg) ==
    [date |-> d[k + 1].date, production |-> Round1(avg[1], avg[2])]

\* ---- initial state: the arguments of one call ---------------------------
Init ==
    /\ \/ /\ data \in UNION {[1..n -> Row] : n \in 0..MaxLen}
          /\ window_size \in (0 - MaxNegW)..MaxW
       \/ /\ data = ExampleData
          /\ window_size = 4
    /\ i = 0
    /\ half_window = 0
    /\ start = 0
    /\ end = 0
    /\ window_values = << >>
    /\ average = <<0, 1>>
    /\ result = << >>
    /\ pc = "for"

\* ---- line 35: for i in range(len(data)) ---------------------------------
ForNext ==
    /\ pc = "for"
    /\ RangeHasNext(Len(data), Len(result))
    /\ i' = Len(result)
    /\ pc' = "bounds"
    /\ UNCHANGED <<data, window_size, half_window, start, end,
                   window_values, average, result>>

ForExit ==
    /\ pc = "for"
    /\ ~RangeHasNext(Len(data), Len(result))
    /\ pc' = "return"
    /\ UNCHANGED <<data, window_size, i, half_window, start, end,
                   window_values, average, result>>

\* ---- lines 37-39: window bounds -----------------------------------------
WindowBounds ==
    /\ pc = "bounds"
    /\ half_window' = HalfWindow(window_size)
    /\ start' = Start(i, window_size)
    /\ end' = End(Len(data), start', window_size)
    /\ pc' = "average"
    /\ UNCHANGED <<data, window_size, i, window_values, average, result>>

\* ---- lines 42-43: average over the window; an empty window raises -------
\* ZeroDivisionError, which leaves the function without a result
ComputeAverage ==
    /\ pc = "average"
    /\ window_values' = WindowValues(data, start, end)
    /\ IF Len(window_values') = 0
       THEN /\ pc' = "error"
            /\ UNCHANGED average
       ELSE /\ average' = <<Sum(window_values'), Len(window_values')>>
            /\ pc' = "append"
    /\ UNCHANGED <<data, window_size, i, half_window, start, end, result>>

\* ---- lines 45-48: result.append({...}) ----------------------------------
AppendRow ==
    /\ pc = "append"
    /\ result' = Append(result, OutRow(data, i, average))
    /\ pc' = "for"
    /\ UNCHANGED <<data, window_size, i, half_window, start, end,
                   window_values, average>>

\* ---- line 50: return result ---------------------------------------------
Return ==
    /\ pc = "return"
    /\ pc' = "done"
    /\ UNCHANGED <<data, window_size, i, half_window, start, end,
                   window_values, average, result>>

Next ==
    \/ ForNext
    \/ ForExit
    \/ WindowBounds
    \/ ComputeAverage
    \/ AppendRow
    \/ Return

Spec == Init /\ [][Next]_vars

\* the loop is sequential code: an enabled step is eventually taken
FairSpec == Spec /\ WF_vars(Next)

\* ==== properties =========================================================
\* The reference definitions below restate the documented window and the
\* rounding rule independently of the operators the actions use.

\* the locals start, end (and i) hold the window of the current index
InWindow == pc \in {"average", "append"}

\* documented window of index k: half = w div 2, start = max(0, k - half),
\* end = min(len, start + w)
DocStart(k) ==
    LET half == window_size \div 2
    IN  IF k - half > 0 THEN k - half ELSE 0
DocEnd(k) ==
    IF DocStart(k) + window_size < Len(data)
    THEN DocStart(k) + window_size
    ELSE Len(data)

\* sum of the productions at source indices lo .. hi - 1
RECURSIVE RangeSum(_, _)
RangeSum(lo, hi) ==
    IF hi <= lo THEN 0 ELSE data[hi].production + RangeSum(lo, hi - 1)

\* t tenths is num / den rounded to one decimal: no tenth is nearer, and on
\* an exact tie t is the even one
IsRounded(t, num, den) ==
    LET dist == IF 10 * num >= t * den THEN 10 * num - t * den
                ELSE t * den - 10 * num
    IN  \/ 2 * dist < den
        \/ 2 * dist = den /\ t % 2 = 0

NonEmpty == Len(data) >= 1
ValidW == window_size >= 1

\* C1: for w >= 1 the returned series has exactly len(data) rows and row k
\* carries the date of input row k; while running, the rows produced so far
\* already carry the dates of the same positions
C1_LengthOrder ==
    ValidW =>
        /\ Len(result) <= Len(data)
        /\ \A k \in 1..Len(result) : result[k].date = data[k].date
        /\ pc = "done" => Len(result) = Len(data)
C1_Witness ==
    /\ pc = "done"
    /\ ValidW
    /\ Len(data) >= 3
    /\ data[1].date # data[2].date
    /\ data[2].date = data[3].date

\* C2 as stated: for every non-empty series and w >= len(series) every
\* window is the whole series and every output is the rounded global average
C2_Original ==
    (NonEmpty /\ window_size >= Len(data)) =>
        /\ InWindow => (start = 0 /\ end = Len(data))
        /\ \A k \in 1..Len(result) :
              IsRounded(result[k].production, RangeSum(0, Len(data)), Len(data))

\* C2 amended: for every non-empty series and
\* w >= max(len(series), 2 * len(series) - 2) every window is the whole
\* series and every output is the rounded global average
C2_Saturation ==
    (NonEmpty /\ window_size >= Len(data)
              /\ window_size >= 2 * Len(data) - 2) =>
        /\ InWindow => (start = 0 /\ end = Len(data))
        /\ \A k \in 1..Len(result) :
              IsRounded(result[k].production, RangeSum(0, Len(data)), Len(data))
C2_Witness ==
    /\ pc = "done"
    /\ Len(data) = 3
    /\ window_size = 4
    /\ RangeSum(0, 3) = 1
    /\ result[3].production = 3

\* C3: with w = 1 the window of index i is the single element i and every
\* output equals the input value of the same position rounded to a tenth
C3_Identity ==
    window_size = 1 =>
        /\ InWindow => (start = i /\ end = i + 1)
        /\ pc = "append" => window_values = <<data[i + 1].production>>
        /\ \A k \in 1..Len(result) :
              IsRounded(result[k].production, data[k].production, 1)
C3_Witness ==
    /\ pc = "done"
    /\ window_size = 1
    /\ Len(data) >= 3
    /\ data[1].production # data[2].production
    /\ data[2].production # data[3].production

\* C4: for w >= 1 and a non-empty series every index has start < end, no
\* division by zero happens, and the call ends with a result
C4_Total ==
    /\ []((ValidW /\ NonEmpty) =>
            /\ pc # "error"
            /\ InWindow => start < end
            /\ pc = "append" => average[2] > 0)
    /\ ((ValidW /\ NonEmpty) ~> (pc = "done" /\ Len(result) = Len(data)))
C4_Witness ==
    /\ pc = "done"
    /\ ValidW
    /\ Len(data) = MaxLen
    /\ end - start = 1

\* C5: for w >= 1 and the empty series the loop body never runs, no error
\* is raised and the empty series is returned
C5_Empty ==
    /\ []((ValidW /\ Len(data) = 0) =>
            /\ pc \in {"for", "return", "done"}
            /\ result = << >>)
    /\ ((ValidW /\ Len(data) = 0) ~> (pc = "done" /\ result = << >>))
C5_Witness ==
    /\ pc = "done"
    /\ ValidW
    /\ Len(data) = 0
    /\ result = << >>

\* C6: for w >= 1 every index i <= w div 2 has the window
\* [0, min(len, w)), so the indices 0 .. w div 2 share one output value;
\* values 1..6 with w = 4 give 2.5 at positions 0, 1, 2 and 5.0 at position 5
C6_LeftEdge ==
    ValidW =>
        /\ (InWindow /\ i <= window_size \div 2) =>
              /\ start = 0
              /\ end = (IF Len(data) < window_size THEN Len(data)
                        ELSE window_size)
        /\ \A k \in 1..Len(result) :
              (k - 1 <= window_size \div 2) =>
                  result[k].production = result[1].production
        /\ (pc = "done" /\ data = ExampleData /\ window_size = 4) =>
              /\ result[1].production = 25
              /\ result[2].production = 25
              /\ result[3].production = 25
              /\ result[6].production = 50
C6_Witness ==
    /\ pc = "done"
    /\ data = ExampleData
    /\ window_size = 4
    /\ result[3].production = 25
    /\ result[4].production # 25

\* C7: for w >= 1 every output is the mean of the inputs at positions
\* start .. end - 1 of the documented window, rounded once after averaging
C7_WindowMean ==
    ValidW =>
        /\ InWindow => /\ half_window = window_size \div 2
                       /\ start = DocStart(i)
                       /\ end = DocEnd(i)
        /\ pc = "append" =>
              /\ window_values =
                    [j \in 1..(DocEnd(i) - DocStart(i)) |->
                        data[DocStart(i) + j].production]
              /\ average = <<RangeSum(DocStart(i), DocEnd(i)),
                             DocEnd(i) - DocStart(i)>>
        /\ \A k \in 0..(Len(result) - 1) :
              IsRounded(result[k + 1].production,
                        RangeSum(DocStart(k), DocEnd(k)),
                        DocEnd(k) - DocStart(k))
C7_Witness ==
    /\ pc = "done"
    /\ ValidW
    /\ \E k \in 0..(Len(result) - 1) :
          /\ DocEnd(k) - DocStart(k) = 4
          /\ RangeSum(DocStart(k), DocEnd(k)) = 1
          /\ result[k + 1].production = 2
    /\ \E k \in 0..(Len(result) - 1) :
          /\ DocEnd(k) - DocStart(k) = 3
          /\ RangeSum(DocStart(k), DocEnd(k)) = 1
          /\ result[k + 1].production = 3

\* C8: for w >= 1 the window holds exactly w elements when
\* start + w <= len, len - start < w elements when start + w > len, and
\* never more than w
C8_RightEdge ==
    (ValidW /\ pc = "append") =>
        /\ start + window_size <= Len(data) =>
              Len(window_values) = window_size
        /\ start + window_size > Len(data) =>
              /\ Len(window_values) = Len(data) - start
              /\ Len(window_values) < window_size
        /\ Len(window_values) <= window_size
C8_Witness ==
    /\ pc = "append"
    /\ ValidW
    /\ start > 0
    /\ start + window_size > Len(data)
    /\ Len(window_values) = 2

\* C9: for w >= 1 the window of index i contains i itself
C9_ContainsIndex ==
    ValidW =>
        /\ InWindow => (start <= i /\ i < end)
        /\ pc = "append" =>
              window_values[i - start + 1] = data[i + 1].production
C9_Witness ==
    /\ pc = "append"
    /\ ValidW
    /\ i >= 2
    /\ start = i - 1
    /\ end = i + 1

\* C10: for w <= 0 and a non-empty series the window of the first index is
\* empty, the call fails with a division by zero and returns nothing; for
\* the empty series the empty series is returned
C10_NonPositive ==
    /\ []((window_size <= 0 /\ NonEmpty) =>
            /\ pc \in {"for", "bounds", "average", "error"}
            /\ result = << >>
            /\ pc \in {"average", "error"} => (i = 0 /\ end <= start))
    /\ ((window_size <= 0 /\ NonEmpty) ~> pc = "error")
    /\ []((window_size <= 0 /\ Len(data) = 0) =>
            /\ pc \in {"for", "return", "done"}
            /\ result = << >>)
    /\ ((window_size <= 0 /\ Len(data) = 0) ~> pc = "done")
C10_Witness ==
    /\ pc = "error"
    /\ window_size < 0
    /\ Len(data) >= 2
    /\ start > 0
    /\ end < 0
====
